---- MODULE Spec2Model ----
(***************************************************************************)
(* State-machine model of the healthcheck package (src/healthCheck.go):    *)
(* the Config object, its configuration calls, and RunCheck with the       *)
(* per-server checkStatus pipeline and the Slack notifier.                  *)
(*                                                                         *)
(* Text is modelled as a sequence of one-character strings, so that the    *)
(* string functions the code calls (TrimSpace, Split, Fields, TrimSuffix,  *)
(* ParseFloat) are computed, not assumed.  Numbers are exact decimals      *)
(* [neg, num, den]; thresholds are kept in tenths of a percent.            *)
(***************************************************************************)
EXTENDS Integers, Sequences, FiniteSets, TLC

VARIABLES
    Servers,          \* Config.Servers: sequence of ServerConfig
    SlackWebhookURL,  \* Config.SlackWebhookURL
    ProcessMap,       \* Config.ProcessMap: type -> process list
    Commands,         \* Config.Commands: the map's slots, <<label, command>>
    Thresholds,       \* Config.Thresholds: name -> tenths of a percent
    pc,               \* position of the caller / RunCheck / checkStatus
    idx,              \* RunCheck: index of the server being ranged over
    report,           \* RunCheck: the report built so far (sequence of lines)
    result,           \* checkStatus: the fragment built so far
    processes,        \* checkStatus: the resolved process list
    order,            \* checkStatus: the order this range over Commands takes
    k,                \* checkStatus: position in the running loop
    world,            \* the hosts: what a connection, command or probe yields
    ran,              \* commands handed to runCommand during this RunCheck
    slack,            \* reports handed to sendReportToSlack, with the outcome
    returned,         \* what RunCheck returned last ("none" before)
    previous,         \* what the RunCheck before that returned
    tweaks,           \* number of configuration calls other than AddServer
    calls,            \* history: the addresses handed to AddServer, in call order
    classified,       \* the classifier applied to one (label, output) pair
    resolved          \* getProcessesForServer applied to one server

vars == <<Servers, SlackWebhookURL, ProcessMap, Commands, Thresholds, pc, idx,
          report, result, processes, order, k, world, ran, slack, returned,
          previous, tweaks, calls, classified, resolved>>

(***************************************************************************)
(* Bounds of the model                                                     *)
(***************************************************************************)
MaxServers == 2

MaxTweaks == 1

MaxFaults == 1

\* Readings of a healthy host and of a busy one, in tenths.
NominalIdle == 920

BusyIdle == 150

NominalTotal == 160

NominalUsed == 40

NominalDisk == 420

(***************************************************************************)
(* Text                                                                    *)
(***************************************************************************)
Digits == <<"0", "1", "2", "3", "4", "5", "6", "7", "8", "9">>

IsSpace(c) == c \in {" ", "\n", "\t"}

IsDigit(c) == \E i \in 1..10 : Digits[i] = c

DigitVal(c) == (CHOOSE i \in 1..10 : Digits[i] = c) - 1

RECURSIVE TrimLeft(_)
TrimLeft(s) == IF s # <<>> /\ IsSpace(Head(s)) THEN TrimLeft(Tail(s)) ELSE s

RECURSIVE TrimRight(_)
TrimRight(s) ==
    IF s # <<>> /\ IsSpace(s[Len(s)]) THEN TrimRight(SubSeq(s, 1, Len(s) - 1)) ELSE s

\* strings.TrimSpace
TrimSpace(s) == TrimRight(TrimLeft(s))

HasPrefix(s, p) == Len(s) >= Len(p) /\ SubSeq(s, 1, Len(p)) = p

HasSuffix(s, p) == Len(s) >= Len(p) /\ SubSeq(s, Len(s) - Len(p) + 1, Len(s)) = p

\* strings.TrimSuffix
TrimSuffix(s, p) == IF HasSuffix(s, p) THEN SubSeq(s, 1, Len(s) - Len(p)) ELSE s

\* strings.Index: 0 when sep does not occur in s, else the first position.
MatchAt(s, i, sep) ==
    /\ i + Len(sep) - 1 <= Len(s)
    /\ \A j \in 1..Len(sep) : s[i + j - 1] = sep[j]

Index(s, sep) ==
    LET hits == {i \in 1..Len(s) : MatchAt(s, i, sep)}
    IN  IF hits = {} THEN 0 ELSE CHOOSE i \in hits : \A j \in hits : i <= j

\* strings.Split(s, sep) for a non-empty sep.
RECURSIVE Split(_, _)
Split(s, sep) ==
    LET i == Index(s, sep)
    IN  IF i = 0 THEN <<s>>
        ELSE <<SubSeq(s, 1, i - 1)>> \o Split(SubSeq(s, i + Len(sep), Len(s)), sep)

RECURSIVE TakeWord(_)
TakeWord(s) ==
    IF s = <<>> \/ IsSpace(Head(s)) THEN <<>> ELSE <<Head(s)>> \o TakeWord(Tail(s))

\* strings.Fields
RECURSIVE Fields(_)
Fields(s) ==
    LET t == TrimLeft(s)
        w == TakeWord(t)
    IN  IF t = <<>> THEN <<>>
        ELSE <<w>> \o Fields(SubSeq(t, Len(w) + 1, Len(t)))

RECURSIVE DigitsValue(_)
DigitsValue(s) ==
    IF s = <<>> THEN 0 ELSE 10 * DigitsValue(SubSeq(s, 1, Len(s) - 1)) + DigitVal(s[Len(s)])

RECURSIVE Pow10(_)
Pow10(n) == IF n = 0 THEN 1 ELSE 10 * Pow10(n - 1)

Zero == [neg |-> FALSE, num |-> 0, den |-> 1]

\* strconv.ParseFloat(s, 64) with the error dropped, on sign, digits and one
\* decimal point: the value, or 0 when the syntax is wrong.
ParseFloat(s) ==
    LET neg  == s # <<>> /\ Head(s) = "-"
        body == IF s # <<>> /\ Head(s) \in {"-", "+"} THEN Tail(s) ELSE s
        dot  == Index(body, <<".">>)
        int  == IF dot = 0 THEN body ELSE SubSeq(body, 1, dot - 1)
        frac == IF dot = 0 THEN <<>> ELSE SubSeq(body, dot + 1, Len(body))
        ok   == /\ \A i \in 1..Len(int) : IsDigit(int[i])
                /\ \A i \in 1..Len(frac) : IsDigit(frac[i])
                /\ Len(int) + Len(frac) > 0
    IN  IF ok
        THEN [neg |-> neg, num |-> DigitsValue(int \o frac), den |-> Pow10(Len(frac))]
        ELSE Zero

\* The signed numerator of a parsed value.
Signed(v) == IF v.neg THEN 0 - v.num ELSE v.num

(***************************************************************************)
(* Report lines.  A line is what one Sprintf appends to the report: its    *)
(* status glyph, the server or label it names, and the text it carries.    *)
(***************************************************************************)
NoPct == [kind |-> "none", tenths |-> 0]

Line(kind, glyph, host, label, text, pct) ==
    [kind |-> kind, glyph |-> glyph, host |-> host, label |-> label,
     text |-> text, pct |-> pct]

\* "\n=== Checking status of server: %s ===\n"
Banner(ip) == Line("banner", "", ip, "", <<>>, NoPct)

\* "❌ *SSH Connection:* %s\n"
ConnLine(errText) == Line("conn", "ERR", "", "SSH Connection", errText, NoPct)

\* "❌ *%s:* Error executing command on %s - %s\n"
CmdErrLine(label, ip, errText) == Line("cmd", "ERR", ip, label, errText, NoPct)

\* "⚠️ *%s:* %s\n" and "✅ *%s:* %s\n"
CmdLine(glyph, label, output, pct) == Line("cmd", glyph, "", label, output, pct)

\* "❌ *Process Check:* %s is NOT running\n" and "✅ *Process Check:* %s is running\n"
ProcLine(glyph, process) == Line("proc", glyph, "", process, <<>>, NoPct)

\* "ℹ️ *Process Check:* No processes specified for monitoring\n"
NoProcLine == Line("noproc", "INFO", "", "Process Check", <<>>, NoPct)

(***************************************************************************)
(* The classifier: the switch of checkStatus on the command's label.       *)
(***************************************************************************)
CommaSp == <<",", " ">>

Percent == <<"%">>

Gi == <<"G", "i">>

\* c.Thresholds[name]: a missing key reads as 0.0
Threshold(T, name) == IF name \in DOMAIN T THEN T[name] ELSE 0

\* Mutant of AtMost: the boundary left out (v < t).
AtMostStrict(v, t) == Signed(v) * 10 < t * v.den

\* v <= t and v >= t for a parsed value v and a threshold t in tenths.
AtMost(v, t) == Signed(v) * 10 <= t * v.den

AtLeast(v, t) == Signed(v) * 10 >= t * v.den

\* strings.Split(output, ", ")[2] and strings.Fields(...)[0]: an index out of
\* range panics.
ThirdFieldPanics(output) ==
    LET parts == Split(output, CommaSp)
    IN  Len(parts) < 3 \/ Fields(parts[3]) = <<>>

\* strconv.ParseFloat(strings.TrimSuffix(strings.Fields(parts[2])[0], "%"), 64)
ThirdFieldPercent(output) ==
    ParseFloat(TrimSuffix(Fields(Split(output, CommaSp)[3])[1], Percent))

\* fields[2] of strings.Fields(output): an index out of range panics.
MemoryPanics(output) == Len(Fields(output)) < 3

MemUsed(output) == ParseFloat(TrimSuffix(Fields(output)[3], Gi))

MemTotal(output) == ParseFloat(TrimSuffix(Fields(output)[1], Gi))

\* usagePercent := (used / total) * 100 as float64 arithmetic defines it:
\* 0/0 is NaN, x/0 is an infinity, otherwise the quotient (kept exact here,
\* as the fraction num/den in tenths of a percent).
MemUsage(output) ==
    LET used  == MemUsed(output)
        total == MemTotal(output)
        neg   == used.neg # total.neg
    IN  IF total.num = 0
        THEN IF used.num = 0 THEN [kind |-> "nan", num |-> 0, den |-> 1]
             ELSE [kind |-> IF neg THEN "-inf" ELSE "+inf", num |-> 0, den |-> 1]
        ELSE [kind |-> "num",
              num  |-> (IF neg THEN 0 - 1 ELSE 1) * used.num * total.den * 1000,
              den  |-> used.den * total.num]

\* usagePercent >= threshold: false for NaN and -Inf, true for +Inf.
MemAtLeast(u, t) ==
    CASE u.kind = "nan"  -> FALSE
      [] u.kind = "+inf" -> TRUE
      [] u.kind = "-inf" -> FALSE
      [] OTHER           -> u.num >= t * u.den

\* "%.1f" of usagePercent: the nearest tenth.
MemPct(u) ==
    IF u.kind # "num" THEN [kind |-> u.kind, tenths |-> 0]
    ELSE [kind |-> "num", tenths |-> (2 * u.num + u.den) \div (2 * u.den)]

\* Does classifying this output panic (index out of range)?
Panics(label, output) ==
    CASE label = "CPU Usage"    -> ThirdFieldPanics(output)
      [] label = "Memory Usage" -> MemoryPanics(output)
      [] label = "Disk Usage"   -> ThirdFieldPanics(output)
      [] OTHER                  -> FALSE

CpuWarns(T, output) == AtMost(ThirdFieldPercent(output), Threshold(T, "CPU Idle"))

MemWarns(T, output) == MemAtLeast(MemUsage(output), Threshold(T, "Memory Used"))

DiskWarns(T, output) == AtLeast(ThirdFieldPercent(output), Threshold(T, "Disk Used"))

Glyph(warn) == IF warn THEN "WARN" ELSE "OK"

\* The line the switch appends for a command that ran (and did not panic).
Classify(T, label, output) ==
    CASE label = "CPU Usage" ->
            CmdLine(Glyph(CpuWarns(T, output)), label, output, NoPct)
      [] label = "Memory Usage" ->
            CmdLine(Glyph(MemWarns(T, output)), label, output, MemPct(MemUsage(output)))
      [] label = "Disk Usage" ->
            CmdLine(Glyph(DiskWarns(T, output)), label, output, NoPct)
      [] OTHER ->
            CmdLine("OK", label, output, NoPct)

(***************************************************************************)
(* The hosts.  A command's outcome is an error or the raw bytes it wrote;  *)
(* the texts below are what the catalogue's commands print.                *)
(***************************************************************************)
RECURSIVE NatStr(_)
NatStr(n) == IF n < 10 THEN <<Digits[n + 1]>> ELSE NatStr(n \div 10) \o <<Digits[(n % 10) + 1]>>

\* A quantity given in tenths, as the tools print it: "92" or "92.3".
Dec(t) == NatStr(t \div 10) \o (IF t % 10 = 0 THEN <<>> ELSE <<".", Digits[(t % 10) + 1]>>)

\* awk '{print $2 "% user, " $4 "% system, " $8 "% idle"}'
CpuOut(idle) == <<"5", "%", " ", "u", "s", "e", "r", ",", " ", "3", "%", " ", "s", "y", "s", "t", "e", "m", ",", " ">> \o Dec(idle) \o <<"%", " ", "i", "d", "l", "e", "\n">>

\* awk 'NR==2{print $2 " total, " $3 " used, " $4 " free"}'
MemOut(total, used) == Dec(total) \o <<"G", "i", " ", "t", "o", "t", "a", "l", ",", " ">> \o Dec(used) \o <<"G", "i", " ", "u", "s", "e", "d", ",", " ", "2", "G", "i", " ", "f", "r", "e", "e", "\n">>

\* awk '$NF=="/"{print $2 " total, " $3 " used, " $5 " used"}'
DiskOut(pct) == <<"1", "0", "G", " ", "t", "o", "t", "a", "l", ",", " ", "9", "G", " ", "u", "s", "e", "d", ",", " ">> \o Dec(pct) \o <<"%", " ", "u", "s", "e", "d", "\n">>

\* echo 'Network is OK'
NetOut == <<"N", "e", "t", "w", "o", "r", "k", " ", "i", "s", " ", "O", "K", "\n">>

\* systemctl status docker | grep Active
DockerOut == <<"A", "c", "t", "i", "v", "e", ":", " ", "a", "c", "t", "i", "v", "e", "\n">>

\* one line of ps aux that names the process
PsOut == <<"r", "o", "o", "t", " ", "1", " ", "i", "n", "i", "t", "\n">>

\* err.Error() of a failed command, and of a failed ssh.Dial
ExitText == <<"e", "x", "i", "t", " ", "s", "t", "a", "t", "u", "s", " ", "1">>

DialText == <<"f", "a", "i", "l", "e", "d", " ", "t", "o", " ", "c", "o", "n", "n", "e", "c", "t", " ", "v", "i", "a", " ", "S", "S", "H">>

Ok(out) == [err |-> FALSE, out |-> out]

Failed(text) == [err |-> TRUE, out |-> text]

\* The four commands of NewDefaultConfig, a command AddCommand may add, and
\* the probe checkStatus builds for a process.
TopCmd == <<"top">>

FreeCmd == <<"free">>

DfCmd == <<"df">>

PingCmd == <<"ping">>

DockerCmd == <<"systemctl">>

\* fmt.Sprintf("ps aux | grep -v grep | grep '%s'", process)
ProbeCmd(process) == <<"ps", process>>

DialCmd == <<"dial">>

\* What a healthy host answers to each command.
TopAnswer == Ok(CpuOut(NominalIdle))

FreeAnswer == Ok(MemOut(NominalTotal, NominalUsed))

DfAnswer == Ok(DiskOut(NominalDisk))

PingAnswer == Ok(NetOut)

DockerAnswer == Ok(DockerOut)

DialAnswer == Ok(<<>>)

PsAnswer == Ok(PsOut)

Nominal(cmd) ==
    CASE cmd = TopCmd    -> TopAnswer
      [] cmd = FreeCmd   -> FreeAnswer
      [] cmd = DfCmd     -> DfAnswer
      [] cmd = PingCmd   -> PingAnswer
      [] cmd = DockerCmd -> DockerAnswer
      [] cmd = DialCmd   -> DialAnswer
      [] OTHER           -> PsAnswer

\* What else it may answer: the command fails, a metric crosses its threshold,
\* the output is cut short, or (for a probe) nothing matches.
TopFaults == {Failed(ExitText), Ok(CpuOut(BusyIdle)), Ok(<<"\n">>)}

FreeFaults == {Failed(ExitText), Ok(<<"1", "6", "G", "i", " ", "t", "o", "t", "a", "l", ",", "\n">>)}

DfFaults == {Failed(ExitText), Ok(<<"1", "0", "G", " ", "t", "o", "t", "a", "l", ",", " ", "9", "G", " ", "u", "s", "e", "d", ",", "\n">>)}

PsFaults == {Failed(ExitText), Ok(<<"\n">>)}

Faults(cmd) ==
    CASE cmd = TopCmd    -> TopFaults
      [] cmd = FreeCmd   -> FreeFaults
      [] cmd = DfCmd     -> DfFaults
      [] cmd = PingCmd   -> {Failed(ExitText)}
      [] cmd = DockerCmd -> {Failed(ExitText)}
      [] cmd = DialCmd   -> {Failed(DialText)}
      [] OTHER           -> PsFaults

\* The number of answers already given that are not the healthy one.
FaultCount(w) == Cardinality({key \in DOMAIN w : w[key] # Nominal(key[2])})

\* The answers a host may give to cmd, given what the hosts answered so far:
\* the answer already given if there is one (the hosts do not change during
\* the checks), else the healthy answer or, within the bound, a fault.
Answers(w, key) ==
    IF key \in DOMAIN w THEN {w[key]}
    ELSE {Nominal(key[2])} \cup (IF FaultCount(w) < MaxFaults THEN Faults(key[2]) ELSE {})

Record(w, key, answer) == IF key \in DOMAIN w THEN w ELSE w @@ (key :> answer)

(***************************************************************************)
(* Config and its configuration calls                                      *)
(***************************************************************************)
ServerConfig(ip, username, password, procs, serverType) ==
    [IP |-> ip, Username |-> username, Password |-> password,
     Processes |-> procs, Type |-> serverType]

\* The Commands map of NewDefaultConfig, slot by slot.
DefaultCommands ==
    << <<"CPU Usage", TopCmd>>, <<"Memory Usage", FreeCmd>>,
       <<"Disk Usage", DfCmd>>, <<"Network Check", PingCmd>> >>

\* The Thresholds map of NewDefaultConfig, in tenths of a percent.
DefaultThresholds ==
    [n \in {"CPU Idle", "Memory Used", "Disk Used"} |->
        CASE n = "CPU Idle"    -> 200
          [] n = "Memory Used" -> 800
          [] OTHER             -> 900]

\* The ProcessMap of NewDefaultConfig: "default" -> {}
DefaultProcessMap == [t \in {"default"} |-> <<>>]

Labels(cmds) == {cmds[i][1] : i \in 1..Len(cmds)}

SlotOf(cmds, label) == CHOOSE i \in 1..Len(cmds) : cmds[i][1] = label

\* c.Commands[label]
CommandOf(cmds, label) == cmds[SlotOf(cmds, label)][2]

\* m[key] = value on a Go map: overwrite the key's slot, or take a new one.
MapPut(cmds, label, command) ==
    IF label \in Labels(cmds)
    THEN [cmds EXCEPT ![SlotOf(cmds, label)] = <<label, command>>]
    ELSE Append(cmds, <<label, command>>)

\* m[key] = value on a map kept as a function.
FnPut(f, key, value) == [x \in DOMAIN f \cup {key} |-> IF x = key THEN value ELSE f[x]]

\* Mutant of AppendServer: the new server is put first.
PrependServer(servers, server) == <<server>> \o servers

\* c.Servers = append(c.Servers, ServerConfig{...})
AppendServer(servers, server) == Append(servers, server)

NoReport == [set |-> FALSE, report |-> <<>>]

NoClass == [label |-> "", shape |-> "none", a |-> 0, b |-> 0, T |-> DefaultThresholds,
            output |-> <<>>, panics |-> FALSE, line |-> NoProcLine]

NoResolve == [set |-> FALSE, server |-> ServerConfig("", "", "", <<>>, ""),
              pm |-> DefaultProcessMap, list |-> <<>>]

Init ==
    /\ Servers = <<>>
    /\ SlackWebhookURL = ""
    /\ ProcessMap = DefaultProcessMap
    /\ Commands = DefaultCommands
    /\ Thresholds = DefaultThresholds
    /\ pc = "config"
    /\ idx = 0
    /\ report = <<>>
    /\ result = <<>>
    /\ processes = <<>>
    /\ order = <<>>
    /\ k = 0
    /\ world = <<>>
    /\ ran = <<>>
    /\ slack = <<>>
    /\ returned = NoReport
    /\ previous = NoReport
    /\ tweaks = 0
    /\ calls = <<>>
    /\ classified = NoClass
    /\ resolved = NoResolve

runVars == <<pc, idx, report, result, processes, order, k, world, ran, slack,
             returned, previous>>

pureVars == <<classified, resolved>>

AddServer(ip, username, password, procs, serverType) ==
    /\ pc = "config"
    /\ Len(Servers) < MaxServers
    /\ Servers' = AppendServer(Servers, ServerConfig(ip, username, password, procs, serverType))
    /\ calls' = Append(calls, ip)
    /\ UNCHANGED <<SlackWebhookURL, ProcessMap, Commands, Thresholds, tweaks>>
    /\ UNCHANGED runVars
    /\ UNCHANGED pureVars

AddProcessType(typeName, procs) ==
    /\ pc = "config"
    /\ ProcessMap' = FnPut(ProcessMap, typeName, procs)
    /\ UNCHANGED <<Servers, SlackWebhookURL, Commands, Thresholds>>
    /\ UNCHANGED calls
    /\ UNCHANGED runVars
    /\ UNCHANGED pureVars

AddCommand(name, command) ==
    /\ pc = "config"
    /\ Commands' = MapPut(Commands, name, command)
    /\ UNCHANGED <<Servers, SlackWebhookURL, ProcessMap, Thresholds>>
    /\ UNCHANGED calls
    /\ UNCHANGED runVars
    /\ UNCHANGED pureVars

SetThreshold(name, value) ==
    /\ pc = "config"
    /\ Thresholds' = FnPut(Thresholds, name, value)
    /\ UNCHANGED <<Servers, SlackWebhookURL, ProcessMap, Commands>>
    /\ UNCHANGED calls
    /\ UNCHANGED runVars
    /\ UNCHANGED pureVars

\* config.SlackWebhookURL = "https://hooks.slack.com/services/..."
SetSlackWebhookURL(url) ==
    /\ pc = "config"
    /\ SlackWebhookURL' = url
    /\ UNCHANGED <<Servers, ProcessMap, Commands, Thresholds>>
    /\ UNCHANGED calls
    /\ UNCHANGED runVars
    /\ UNCHANGED pureVars

(***************************************************************************)
(* getProcessesForServer                                                   *)
(***************************************************************************)
\* c.ProcessMap[key]: a missing key reads as nil, the empty list
MapGet(pm, key) == IF key \in DOMAIN pm THEN pm[key] ELSE <<>>

\* Mutant of getProcessesForServer: an empty list for the type does not count.
getProcessesSkippingEmpty(pm, server) ==
    IF Len(server.Processes) > 0 THEN server.Processes
    ELSE IF server.Type # "" /\ server.Type \in DOMAIN pm /\ Len(pm[server.Type]) > 0
         THEN pm[server.Type]
    ELSE MapGet(pm, "default")

getProcessesForServer(pm, server) ==
    IF Len(server.Processes) > 0 THEN server.Processes
    ELSE IF server.Type # "" /\ server.Type \in DOMAIN pm THEN pm[server.Type]
    ELSE MapGet(pm, "default")

(***************************************************************************)
(* RunCheck, checkStatus and sendReportToSlack                             *)
(***************************************************************************)
\* server.IP == "localhost" || server.IP == "127.0.0.1"
isLocal(server) == server.IP \in {"localhost", "127.0.0.1"}

\* runCommand: ("", err) when the command fails, else its trimmed output.
runCommand(answer) ==
    IF answer.err THEN [err |-> TRUE, out |-> <<>>, text |-> answer.out]
    ELSE [err |-> FALSE, out |-> TrimSpace(answer.out), text |-> <<>>]

\* for label, cmdStr := range c.Commands: every key once, from a start the
\* runtime draws anew for each loop.
RangeOrders(cmds) ==
    LET n == Len(cmds)
    IN  {[i \in 1..n |-> cmds[((i + r - 1) % n) + 1][1]] : r \in 0..(n - 1)}

\* Mutant of NotRunning: empty output is not looked at.
NotRunningOnError(r) == r.err

\* err != nil || output == ""
NotRunning(r) == r.err \/ r.out = <<>>

\* Mutant of ContinueAt: break, the loop over the commands ends.
BreakAt(i, n) == n + 1

\* continue: the loop over n commands goes on with the one after the i-th
ContinueAt(i, n) == i + 1

\* RunCheck begins: var report string
StartRun ==
    /\ pc' = "loop"
    /\ idx' = 1
    /\ report' = <<>>
    /\ ran' = <<>>
    /\ slack' = <<>>
    /\ previous' = returned
    /\ UNCHANGED <<Servers, SlackWebhookURL, ProcessMap, Commands, Thresholds, tweaks,
                   calls, result, processes, order, k, world, returned>>
    /\ UNCHANGED pureVars

RunCheck ==
    /\ pc = "config"
    /\ StartRun

\* A second RunCheck on the unchanged configuration.
RunCheckAgain ==
    /\ pc = "done"
    /\ ~previous.set
    /\ StartRun

cfgVars == <<Servers, SlackWebhookURL, ProcessMap, Commands, Thresholds, tweaks, calls>>

\* The range over c.Servers takes the next server: the banner, then the
\* call of checkStatus, which resolves the server's process list.
ServerBanner ==
    /\ pc = "loop"
    /\ idx <= Len(Servers)
    /\ report' = Append(report, Banner(Servers[idx].IP))
    /\ processes' = getProcessesForServer(ProcessMap, Servers[idx])
    /\ result' = <<>>
    /\ pc' = "connect"
    /\ UNCHANGED <<idx, order, k, world, ran, slack, returned, previous>>
    /\ UNCHANGED cfgVars
    /\ UNCHANGED pureVars

\* checkStatus returns its fragment; RunCheck appends it and moves on.
ReturnFragment(fragment) ==
    /\ report' = report \o fragment
    /\ idx' = idx + 1

\* Mutant of Connect: the return after the connection line is missing.
ConnectNoReturn ==
    /\ pc = "connect"
    /\ IF isLocal(Servers[idx])
       THEN UNCHANGED <<world, result>>
       ELSE \E a \in Answers(world, <<idx, DialCmd>>) :
              /\ world' = Record(world, <<idx, DialCmd>>, a)
              /\ result' = IF a.err THEN Append(result, ConnLine(a.out)) ELSE result
    /\ pc' = "range"
    /\ UNCHANGED <<report, idx, processes, order, k, ran, slack, returned, previous>>
    /\ UNCHANGED cfgVars
    /\ UNCHANGED pureVars

\* Mutant of Connect: a failed dial ends the whole RunCheck.
ConnectAborts ==
    /\ pc = "connect"
    /\ IF isLocal(Servers[idx])
       THEN /\ pc' = "range"
            /\ UNCHANGED <<world, result, report, idx>>
       ELSE \E a \in Answers(world, <<idx, DialCmd>>) :
              /\ world' = Record(world, <<idx, DialCmd>>, a)
              /\ IF a.err
                 THEN /\ result' = Append(result, ConnLine(a.out))
                      /\ ReturnFragment(result')
                      /\ pc' = "return"
                 ELSE /\ pc' = "range"
                      /\ UNCHANGED <<result, report, idx>>
    /\ UNCHANGED <<processes, order, k, ran, slack, returned, previous>>
    /\ UNCHANGED cfgVars
    /\ UNCHANGED pureVars

\* createSSHClient: nothing to dial for the local host; a failed dial ends
\* checkStatus with the connection line.
Connect ==
    /\ pc = "connect"
    /\ IF isLocal(Servers[idx])
       THEN /\ pc' = "range"
            /\ UNCHANGED <<world, result, report, idx>>
       ELSE \E a \in Answers(world, <<idx, DialCmd>>) :
              /\ world' = Record(world, <<idx, DialCmd>>, a)
              /\ IF a.err
                 THEN /\ result' = Append(result, ConnLine(a.out))
                      /\ ReturnFragment(result')
                      /\ pc' = "loop"
                 ELSE /\ pc' = "range"
                      /\ UNCHANGED <<result, report, idx>>
    /\ UNCHANGED <<processes, order, k, ran, slack, returned, previous>>
    /\ UNCHANGED cfgVars
    /\ UNCHANGED pureVars

RangeCommands ==
    /\ pc = "range"
    /\ \E o \in RangeOrders(Commands) : order' = o
    /\ k' = 1
    /\ pc' = "commands"
    /\ UNCHANGED <<idx, report, result, processes, world, ran, slack, returned, previous>>
    /\ UNCHANGED cfgVars
    /\ UNCHANGED pureVars

\* One iteration of the range over c.Commands.
RunCommand ==
    /\ pc = "commands"
    /\ k <= Len(order)
    /\ LET label == order[k]
           key   == <<idx, CommandOf(Commands, label)>>
       IN  \E a \in Answers(world, key) :
             LET r == runCommand(a)
             IN  /\ world' = Record(world, key, a)
                 /\ ran' = Append(ran, key)
                 /\ IF r.err
                    THEN /\ result' = Append(result, CmdErrLine(label, Servers[idx].IP, r.text))
                         /\ k' = ContinueAt(k, Len(order))
                         /\ pc' = "commands"
                    ELSE IF Panics(label, r.out)
                    THEN /\ pc' = "panicked"
                         /\ UNCHANGED <<result, k>>
                    ELSE /\ result' = Append(result, Classify(Thresholds, label, r.out))
                         /\ k' = k + 1
                         /\ pc' = "commands"
    /\ UNCHANGED <<idx, report, processes, order, slack, returned, previous>>
    /\ UNCHANGED cfgVars
    /\ UNCHANGED pureVars

\* The range over c.Commands is over: on to the process checks, or the
\* line that says there are none, and checkStatus returns.
CommandsDone ==
    /\ pc = "commands"
    /\ k > Len(order)
    /\ IF Len(processes) > 0
       THEN /\ pc' = "probes"
            /\ k' = 1
            /\ UNCHANGED <<result, report, idx>>
       ELSE /\ result' = Append(result, NoProcLine)
            /\ ReturnFragment(result')
            /\ pc' = "loop"
            /\ UNCHANGED k
    /\ UNCHANGED <<processes, order, world, ran, slack, returned, previous>>
    /\ UNCHANGED cfgVars
    /\ UNCHANGED pureVars

\* One iteration of the range over processes.
Probe ==
    /\ pc = "probes"
    /\ k <= Len(processes)
    /\ LET key == <<idx, ProbeCmd(processes[k])>>
       IN  \E a \in Answers(world, key) :
             /\ world' = Record(world, key, a)
             /\ ran' = Append(ran, key)
             /\ result' = Append(result,
                    ProcLine(IF NotRunning(runCommand(a)) THEN "ERR" ELSE "OK", processes[k]))
    /\ k' = k + 1
    /\ UNCHANGED <<pc, idx, report, processes, order, slack, returned, previous>>
    /\ UNCHANGED cfgVars
    /\ UNCHANGED pureVars

ProbesDone ==
    /\ pc = "probes"
    /\ k > Len(processes)
    /\ ReturnFragment(result)
    /\ pc' = "loop"
    /\ UNCHANGED <<result, processes, order, k, world, ran, slack, returned, previous>>
    /\ UNCHANGED cfgVars
    /\ UNCHANGED pureVars

\* if c.SlackWebhookURL != "" { c.sendReportToSlack(report) }
Notifies(url) == url # ""

\* The range over c.Servers is over.
FleetDone ==
    /\ pc = "loop"
    /\ idx > Len(Servers)
    /\ pc' = IF Notifies(SlackWebhookURL) THEN "notify" ELSE "return"
    /\ UNCHANGED <<idx, report, result, processes, order, k, world, ran, slack,
                   returned, previous>>
    /\ UNCHANGED cfgVars
    /\ UNCHANGED pureVars

\* How a delivery may end: posted with 200 OK, another status, or no response.
Deliveries == {"ok", "status", "transport"}

\* Mutant of ReportAfterDelivery: a failed delivery empties the report.
ReportLostOnFailure(rep, outcome) == IF outcome = "ok" THEN rep ELSE <<>>

\* What RunCheck holds as its report once sendReportToSlack is back.
ReportAfterDelivery(rep, outcome) == rep

\* sendReportToSlack: the post and its outcome; every outcome only prints.
sendReportToSlack ==
    /\ pc = "notify"
    /\ \E o \in Deliveries :
         /\ slack' = Append(slack, [report |-> report, outcome |-> o])
         /\ report' = ReportAfterDelivery(report, o)
    /\ pc' = "return"
    /\ UNCHANGED <<idx, result, processes, order, k, world, ran, returned, previous>>
    /\ UNCHANGED cfgVars
    /\ UNCHANGED pureVars

\* return report
Return ==
    /\ pc = "return"
    /\ returned' = [set |-> TRUE, report |-> report]
    /\ pc' = "done"
    /\ UNCHANGED <<idx, report, result, processes, order, k, world, ran, slack, previous>>
    /\ UNCHANGED cfgVars
    /\ UNCHANGED pureVars

(***************************************************************************)
(* Specifications                                                          *)
(***************************************************************************)
\* The servers the fleet is built from.
ServerInputs ==
    { ServerConfig("localhost", "user", "password", <<>>, "web"),
      ServerConfig("10.1.0.172", "user", "password", <<"mysql", "redis-server">>, "db") }

ProcessTypeInputs == { <<"web", <<"nginx">> >> }

CommandInputs == { <<"Docker Status", DockerCmd>>, <<"Network Check", DockerCmd>> }

ThresholdInputs == { <<"CPU Idle", 950>>, <<"Disk Used", 400>> }

WebhookInputs == { "https://hooks.slack.com/services/YOUR_WEBHOOK_URL" }

\* One more configuration call, within the bound on their number.
Tweak == tweaks < MaxTweaks /\ tweaks' = tweaks + 1

Configure ==
    \/ \E s \in ServerInputs : AddServer(s.IP, s.Username, s.Password, s.Processes, s.Type)
    \/ \E p \in ProcessTypeInputs : AddProcessType(p[1], p[2]) /\ Tweak
    \/ \E c \in CommandInputs : AddCommand(c[1], c[2]) /\ Tweak
    \/ \E t \in ThresholdInputs : SetThreshold(t[1], t[2]) /\ Tweak
    \/ \E u \in WebhookInputs : SetSlackWebhookURL(u) /\ Tweak

Check ==
    \/ ServerBanner
    \/ Connect
    \/ RangeCommands
    \/ RunCommand
    \/ CommandsDone
    \/ Probe
    \/ ProbesDone
    \/ FleetDone
    \/ sendReportToSlack
    \/ Return

Next == Configure \/ RunCheck \/ Check

Spec == Init /\ [][Next]_vars

(***************************************************************************)
(* RunCheck called twice on the unchanged configuration.                   *)
(***************************************************************************)
NextTwice ==
    \/ \E s \in ServerInputs : AddServer(s.IP, s.Username, s.Password, s.Processes, s.Type)
    \/ RunCheck
    \/ ServerBanner
    \/ Connect
    \/ RangeCommands
    \/ RunCommand
    \/ CommandsDone
    \/ Probe
    \/ ProbesDone
    \/ FleetDone
    \/ Return
    \/ RunCheckAgain

SpecTwice == Init /\ [][NextTwice]_vars

(***************************************************************************)
(* The classifier on its own: one command's output, as runCommand hands    *)
(* it over, under thresholds set by SetThreshold.                          *)
(***************************************************************************)
ClassifyOne(label, shape, a, b, raw) ==
    /\ pc = "config"
    /\ classified = NoClass
    /\ LET r == runCommand(Ok(raw))
           p == Panics(label, r.out)
       IN  classified' = [label |-> label, shape |-> shape, a |-> a, b |-> b,
                          T |-> Thresholds, output |-> r.out, panics |-> p,
                          line |-> IF p THEN NoProcLine
                                   ELSE Classify(Thresholds, label, r.out)]
    /\ UNCHANGED cfgVars
    /\ UNCHANGED runVars
    /\ UNCHANGED resolved

\* Readings around the thresholds, in tenths: idle percent, (total, used)
\* in Gi, and used percent of the disk.
IdleInputs == {0, 150, 199, 200, 201, 920, 949, 950, 951, 1000}

MemInputs == {<<160, 40>>, <<160, 128>>, <<160, 127>>, <<100, 79>>, <<100, 80>>,
              <<100, 81>>, <<80, 40>>, <<80, 41>>, <<5, 5>>, <<0, 0>>, <<0, 40>>}

DiskInputs == {0, 399, 400, 401, 899, 900, 901, 1000}

\* Outputs that are not of the expected shape.
RawInputs ==
    { <<"CPU Usage", <<"\n">> >>,
      <<"CPU Usage", <<"5", "%", " ", "u", "s", "e", "r", ",", " ", "3", "%", " ", "s", "y", "s", "t", "e", "m", "\n">> >>,
      <<"CPU Usage", <<"5", "%", " ", "u", "s", "e", "r", ",", " ", "3", "%", " ", "s", "y", "s", "t", "e", "m", ",", " ", "\n">> >>,
      <<"CPU Usage", <<"u", "s", ",", " ", "s", "y", ",", " ", "i", "d", "\n">> >>,
      <<"Memory Usage", <<"5", "1", "2", "M", "i", " ", "t", "o", "t", "a", "l", ",", " ", "1", "0", "0", "M", "i", " ", "u", "s", "e", "d", ",", " ", "2", "M", "i", " ", "f", "r", "e", "e", "\n">> >>,
      <<"Memory Usage", <<"1", "6", "G", "i", " ", "t", "o", "t", "a", "l", ",", "\n">> >>,
      <<"Disk Usage", <<"1", "0", "G", " ", "t", "o", "t", "a", "l", ",", " ", "9", "G", " ", "u", "s", "e", "d", ",", "\n">> >>,
      <<"Disk Usage", <<"a", ",", " ", "b", ",", " ", "c", " ", "d", "\n">> >> }

OtherInputs ==
    { <<"Network Check", NetOut>>, <<"Docker Status", DockerOut>>,
      <<"Network Check", CpuOut(0)>>, <<"Docker Status", <<"\n">> >> }

ClassifyThresholdInputs ==
    { <<"CPU Idle", 0>>, <<"CPU Idle", 950>>, <<"CPU Idle", 0 - 10>>,
      <<"Memory Used", 500>>, <<"Memory Used", 0>>, <<"Disk Used", 400>>,
      <<"Disk Used", 1000>> }

NextClassify ==
    \/ \E t \in ClassifyThresholdInputs :
          classified = NoClass /\ SetThreshold(t[1], t[2]) /\ UNCHANGED tweaks
    \/ \E i \in IdleInputs : ClassifyOne("CPU Usage", "cpu", i, 0, CpuOut(i))
    \/ \E m \in MemInputs : ClassifyOne("Memory Usage", "mem", m[1], m[2], MemOut(m[1], m[2]))
    \/ \E d \in DiskInputs : ClassifyOne("Disk Usage", "disk", d, 0, DiskOut(d))
    \/ \E o \in OtherInputs : ClassifyOne(o[1], "other", 0, 0, o[2])
    \/ \E r \in RawInputs : ClassifyOne(r[1], "raw", 0, 0, r[2])

SpecClassify == Init /\ [][NextClassify]_vars

(***************************************************************************)
(* getProcessesForServer on its own, under process types set by            *)
(* AddProcessType.                                                         *)
(***************************************************************************)
Resolve(server) ==
    /\ pc = "config"
    /\ ~resolved.set
    /\ resolved' = [set |-> TRUE, server |-> server, pm |-> ProcessMap,
                    list |-> getProcessesForServer(ProcessMap, server)]
    /\ UNCHANGED cfgVars
    /\ UNCHANGED runVars
    /\ UNCHANGED classified

ProcessLists == { <<>>, <<"nginx", "prometheus">>, <<"mysql">> }

TypeTags == { "", "web", "db", "default" }

NextResolve ==
    \/ \E t \in TypeTags \ {"db"} : \E l \in ProcessLists :
          ~resolved.set /\ AddProcessType(t, l) /\ UNCHANGED tweaks
    \/ \E l \in ProcessLists \ { <<"mysql">> } : \E t \in TypeTags :
          Resolve(ServerConfig("localhost", "user", "password", l, t))

SpecResolve == Init /\ [][NextResolve]_vars

(***************************************************************************)
(* Reading a report: its fragments, and what the hosts answered            *)
(***************************************************************************)
BannerPositions(rep) == {i \in 1..Len(rep) : rep[i].kind = "banner"}

NumFragments(rep) == Cardinality(BannerPositions(rep))

BannerPos(rep, n) ==
    CHOOSE i \in BannerPositions(rep) :
        Cardinality({j \in BannerPositions(rep) : j <= i}) = n

\* The lines between the n-th banner and the next one (or the end).
Fragment(rep, n) ==
    LET stop == IF n < NumFragments(rep) THEN BannerPos(rep, n + 1) - 1 ELSE Len(rep)
    IN  SubSeq(rep, BannerPos(rep, n) + 1, stop)

BannerHosts(rep) == [n \in 1..NumFragments(rep) |-> rep[BannerPos(rep, n)].host]

InCheckStatus == pc \in {"connect", "range", "commands", "probes", "panicked"}

Running == pc # "config"

\* The n-th server's fragment is in the report, whole.
Complete(n) ==
    /\ Running
    /\ n <= NumFragments(report)
    /\ n < NumFragments(report) \/ ~InCheckStatus

DialFailed(i) ==
    /\ ~isLocal(Servers[i])
    /\ <<i, DialCmd>> \in DOMAIN world
    /\ world[<<i, DialCmd>>].err

\* What was run on the i-th server during this RunCheck, in order.
RanOn(i) ==
    LET On(e) == e[1] = i
    IN  SelectSeq(ran, On)

ProbesOn(i) ==
    LET IsProbe(e) == e[1] = i /\ e[2][1] = "ps"
    IN  SelectSeq(ran, IsProbe)

FleetIndices == 1..Len(Servers)

\* The line a command of the i-th server gets, from that server's answer alone.
OwnCmdLine(i, label) ==
    LET r == runCommand(world[<<i, CommandOf(Commands, label)>>])
    IN  IF r.err THEN CmdErrLine(label, Servers[i].IP, r.text)
        ELSE Classify(Thresholds, label, r.out)

OwnProcLines(i) ==
    LET procs == getProcessesForServer(ProcessMap, Servers[i])
    IN  IF procs = <<>> THEN <<NoProcLine>>
        ELSE [m \in 1..Len(procs) |->
                ProcLine(IF NotRunning(runCommand(world[<<i, ProbeCmd(procs[m])>>]))
                         THEN "ERR" ELSE "OK", procs[m])]

\* f is the fragment the i-th server's own configuration and answers give.
OwnFragment(i, f) ==
    IF DialFailed(i) THEN f = <<ConnLine(world[<<i, DialCmd>>].out)>>
    ELSE LET n == Len(Commands)
         IN  /\ Len(f) = n + Len(OwnProcLines(i))
             /\ {f[m].label : m \in 1..n} = Labels(Commands)
             /\ \A m \in 1..n : f[m] = OwnCmdLine(i, f[m].label)
             /\ SubSeq(f, n + 1, Len(f)) = OwnProcLines(i)

(***************************************************************************)
(* Claims                                                                  *)
(***************************************************************************)

\* C1: RunCheck never fails: whatever a command prints, RunCheck runs to its
\* end and returns a report; it never panics.
RunCheckNeverFails == pc # "panicked"

FirstMatchWins ==
    resolved.set =>
        LET s   == resolved.server
            pm  == resolved.pm
            typed == s.Type # "" /\ s.Type \in DOMAIN pm
        IN  /\ s.Processes # <<>> => resolved.list = s.Processes
            /\ s.Processes = <<>> /\ typed => resolved.list = pm[s.Type]
            /\ s.Processes = <<>> /\ ~typed => resolved.list = pm["default"]

\* C3 witness: a server without processes of its own, whose type has an empty
\* entry while "default" is not empty, resolves to the empty list.
FirstMatchWinsWitness ==
    /\ resolved.set
    /\ resolved.server.Processes = <<>>
    /\ resolved.server.Type = "web"
    /\ "web" \in DOMAIN resolved.pm
    /\ resolved.pm["web"] = <<>>
    /\ resolved.pm["default"] # <<>>
    /\ resolved.list = <<>>

\* C4: for a reachable server the fragment ends with one line per process of
\* its resolved list, in list order, OK iff the probe succeeded with
\* non-empty output and ERR iff it failed or printed nothing, and exactly
\* these probes were run; with an empty list it ends with the one
\* no-processes line and no probe was run.
ProcessLinesRight ==
    \A i \in FleetIndices :
        (Complete(i) /\ ~DialFailed(i)) =>
            LET f     == Fragment(report, i)
                procs == getProcessesForServer(ProcessMap, Servers[i])
                tail  == SubSeq(f, Len(Commands) + 1, Len(f))
            IN  IF procs = <<>>
                THEN tail = <<NoProcLine>> /\ ProbesOn(i) = <<>>
                ELSE /\ Len(tail) = Len(procs)
                     /\ ProbesOn(i) = [m \in 1..Len(procs) |-> <<i, ProbeCmd(procs[m])>>]
                     /\ \A m \in 1..Len(procs) :
                          LET a == world[<<i, ProbeCmd(procs[m])>>]
                          IN  /\ tail[m].kind = "proc"
                              /\ tail[m].label = procs[m]
                              /\ tail[m].glyph \in {"OK", "ERR"}
                              /\ tail[m].glyph = "OK" <=>
                                     (~a.err /\ TrimSpace(a.out) # <<>>)

\* C4 witness: a finished run with a probe that succeeded but printed nothing,
\* reported as not running, next to a process reported as running.
ProcessLinesWitness ==
    /\ pc = "done"
    /\ \E i \in FleetIndices :
         /\ ~DialFailed(i)
         /\ \E key \in DOMAIN world :
              key[1] = i /\ key[2][1] = "ps" /\ ~world[key].err
              /\ TrimSpace(world[key].out) = <<>>
         /\ \E m \in 1..Len(Fragment(report, i)) :
              Fragment(report, i)[m].kind = "proc" /\ Fragment(report, i)[m].glyph = "OK"
         /\ \E m \in 1..Len(Fragment(report, i)) :
              Fragment(report, i)[m].kind = "proc" /\ Fragment(report, i)[m].glyph = "ERR"

\* C5: when the connection to a server fails, checkStatus is over at once:
\* the server's fragment is the single connection-error line, and no
\* command is run against that server.
DialFailureShortCircuits ==
    \A i \in FleetIndices :
        (Running /\ DialFailed(i) /\ i <= NumFragments(report)) =>
            /\ Complete(i)
            /\ RanOn(i) = <<>>
            /\ Len(Fragment(report, i)) = 1
            /\ Fragment(report, i)[1].kind = "conn"
            /\ Fragment(report, i)[1].glyph = "ERR"

\* C5 witness: a finished run in which a server could not be reached.
DialFailureWitness ==
    /\ pc = "done"
    /\ \E i \in FleetIndices : DialFailed(i) /\ Fragment(returned.report, i) # <<>>

\* C6: a failed connection to one server leaves the others alone: every
\* other server, before or after it, is still checked, and its fragment is
\* the one its own configuration and its own host's answers give.
FaultIsolation ==
    \A j \in FleetIndices :
        (Running /\ DialFailed(j)) =>
            \A i \in FleetIndices \ {j} :
                /\ pc = "done" => Complete(i)
                /\ Complete(i) => OwnFragment(i, Fragment(report, i))

\* C6 witness: a finished run of two servers, the first unreachable, the
\* second checked in full.
FaultIsolationWitness ==
    /\ pc = "done"
    /\ Len(Servers) = 2
    /\ DialFailed(1)
    /\ ~DialFailed(2)
    /\ Len(Fragment(returned.report, 2)) > Len(Commands)

\* C7: the report is one banner-headed fragment per server, in the order of
\* the AddServer calls; a server's banner comes only after the fragment
\* before it is whole; RunCheck returns that report, and an empty fleet
\* gives the empty report.
ReportInAddOrder ==
    Running =>
        LET hosts == BannerHosts(report)
        IN  /\ Len(hosts) <= Len(calls)
            /\ \A n \in 1..Len(hosts) : hosts[n] = calls[n]
            /\ report # <<>> => report[1].kind = "banner"
            /\ \A n \in 1..(Len(hosts) - 1) : Fragment(report, n) # <<>>
            /\ pc = "done" =>
                  /\ returned.report = report
                  /\ Len(hosts) = Len(calls)
                  /\ calls = <<>> => returned.report = <<>>

\* C7 witness: a finished run over two servers with different addresses.
ReportInAddOrderWitness ==
    /\ pc = "done"
    /\ Len(calls) = 2
    /\ calls[1] # calls[2]
    /\ BannerHosts(returned.report) = calls

\* C8: the notifier is called once, with the whole report, after the last
\* fragment and before RunCheck returns, if the endpoint is set, and never
\* if it is not; whatever the delivery's outcome, RunCheck returns the
\* report it had built.
NotificationNeutral ==
    /\ slack # <<>> =>
          /\ pc \in {"return", "done"}
          /\ Len(slack) = 1
          /\ SlackWebhookURL # ""
          /\ NumFragments(slack[1].report) = Len(Servers)
          /\ report = slack[1].report
    /\ pc = "done" =>
          /\ SlackWebhookURL # "" => Len(slack) = 1 /\ returned.report = slack[1].report
          /\ SlackWebhookURL = "" => slack = <<>>

\* C8 witness: a finished run whose delivery failed and which returned a
\* report that is not empty.
NotificationWitness ==
    /\ pc = "done"
    /\ slack # <<>>
    /\ slack[1].outcome = "transport"
    /\ returned.report # <<>>

\* C9: two RunChecks on the unchanged configuration, every command
\* answering the same in both, return the same report.
RunCheckRepeats ==
    (pc = "done" /\ previous.set) => returned.report = previous.report

\* C10: for a reachable server the fragment has exactly one line per
\* catalogue entry, an error line iff that command failed; a failure does
\* not stop the commands after it (each one is run); the command lines come
\* before the process lines, which are always there.
FailedCommandIsolated ==
    \A i \in FleetIndices :
        (Complete(i) /\ ~DialFailed(i)) =>
            LET f == Fragment(report, i)
                n == Len(Commands)
            IN  /\ Len(f) > n
                /\ \A m \in 1..n : f[m].kind = "cmd"
                /\ \A m \in (n + 1)..Len(f) : f[m].kind \in {"proc", "noproc"}
                /\ \A l \in Labels(Commands) :
                      /\ Cardinality({m \in 1..n : f[m].label = l}) = 1
                      /\ \E e \in 1..Len(ran) : ran[e] = <<i, CommandOf(Commands, l)>>
                /\ \A m \in 1..n :
                      f[m].glyph = "ERR" <=> world[<<i, CommandOf(Commands, f[m].label)>>].err

\* C10 witness: a finished run in which a command failed, commands after it
\* were still reported, and the process check followed.
FailedCommandWitness ==
    /\ pc = "done"
    /\ \E i \in FleetIndices :
         /\ ~DialFailed(i)
         /\ Fragment(returned.report, i)[1].kind = "cmd"
         /\ Fragment(returned.report, i)[1].glyph = "ERR"
         /\ Fragment(returned.report, i)[2].kind = "cmd"
         /\ Fragment(returned.report, i)[2].glyph # "ERR"
         /\ Fragment(returned.report, i)[Len(Fragment(returned.report, i))].kind
                \in {"proc", "noproc"}

====
